---- MODULE Spec2Model ----
(***************************************************************************)
(* Speed-camera server (src/bin/problem6.rs): per-connection read loop,    *)
(* outbound mpsc queue, writer task with a BufWriter, heartbeat task.      *)
(* Boguscoin rewrite of the proxy (src/bin/problem5.rs).                   *)
(* Chat relay (src/bin/problem3.rs): manager task, broadcast to the clients.*)
(* Proxy session (src/bin/problem5.rs forward): two directions in a select!.*)
(* Price store (src/bin/problem2.rs): one HashMap per connection.          *)
(***************************************************************************)
EXTENDS Integers, Sequences, FiniteSets, TLC

(* ---------------------------- bounds ---------------------------------- *)
\* number of connections the acceptor takes during a run of Spec
NumConns == 1
\* number of connections the acceptor takes during a run of SpecRoads
NumRoadConns == 3
\* number of connections the acceptor takes during a run of SpecPair
NumPairConns == 2
\* number of connections the acceptor takes during a run of SpecDispatch: two
\* cameras and then the dispatchers
NumDispatchConns == 4
\* number of Heartbeat messages one heartbeat task sends during a run
MaxBeats == 2
\* number of Plate reports logged during a run
MaxLog == 2
\* longest plate of a Plate frame handed to from_bytes on its own
MaxPlateLen == 2
\* largest numroads of an IAmDispatcher frame handed to from_bytes on its own
MaxRoads == 2
\* largest number of words of a line handed to do_the_boguscoin_rewrite
MaxWords == 2
\* number of connections the chat relay accepts during a run of SpecChat
NumChatConns == 2
\* number of chat lines read from one connection during a run
MaxLines == 2
\* number of lines read in one direction of a proxy session during a run
MaxRelay == 2
\* number of connections the price store accepts during a run of SpecStore
NumStoreConns == 2
\* number of messages read from one connection of the price store during a run
MaxRequests == 3

(* ------------------------ program constants --------------------------- *)
\* mpsc::channel::<ServerMessage>(512)
ChannelCapacity == 512
\* tokio::io::BufWriter::new : DEFAULT_BUF_SIZE = 8 * 1024
BufCapacity == 8192
\* hearbeat.interval * 100
MillisPerDecisecond == 100
\* error.msg.len() > 255, ticket.plate.len() > 255
MaxStrLen == 255
\* mpsc::channel::<IncomingEvent>(128)
IncomingCapacity == 128
\* broadcast::channel::<OutgoingEvent>(128)
OutgoingCapacity == 128

\* base of the 16-bit limbs in which products of u32 values are computed
Limb == 65536

(* --------------------------- byte helpers ----------------------------- *)
Take(s, n) == SubSeq(s, 1, n)
Drop(s, n) == SubSeq(s, n + 1, Len(s))

\* AsyncReadExt::read_u16 / read_u32 : big-endian
\* (the inputs of this model keep the first byte of a u32 below 128)
be_u16(s) == s[1] * 256 + s[2]
be_u32(s) == ((s[1] * 256 + s[2]) * 256 + s[3]) * 256 + s[4]

\* AsyncWriteExt::write_u16 / write_u32 : big-endian
u16_be(n) == << (n \div 256) % 256, n % 256 >>
u32_be(n) == << (n \div 16777216) % 256, (n \div 65536) % 256, (n \div 256) % 256, n % 256 >>

\* String::from_utf8_lossy on single bytes: an ASCII byte is kept, a byte that is
\* not ASCII becomes U+FFFD (the inputs of this model hold no multi-byte sequence).
from_utf8_lossy(bs) == [i \in 1..Len(bs) |-> IF bs[i] < 128 THEN bs[i] ELSE 65533]

(* ----------------------- ClientMessage::from_bytes --------------------- *)
DecodeErr(why, b) == [ok |-> FALSE, err |-> why, byte |-> b, msg |-> [type |-> "None"]]
DecodeOk(m) == [ok |-> TRUE, err |-> "", byte |-> 0, msg |-> m]

RECURSIVE read_roads_short(_, _)
\* read_roads with `break` where the stream ends: the roads read so far are kept
read_roads_short(s, n) ==
    IF n = 0 \/ Len(s) < 2 THEN << TRUE, << >> >>
    ELSE << TRUE, << be_u16(s) >> \o read_roads_short(Drop(s, 2), n - 1)[2] >>

RECURSIVE read_roads(_, _)
\* the loop `for _ in 0..numroads { roads.push(reader.read_u16().await?) }`:
\* <<TRUE, roads>> or <<FALSE, <<>>>> when the stream ends first
read_roads(s, n) ==
    IF n = 0 THEN << TRUE, << >> >>
    ELSE IF Len(s) < 2 THEN << FALSE, << >> >>
    ELSE LET rest == read_roads(Drop(s, 2), n - 1)
         IN  IF rest[1] THEN << TRUE, << be_u16(s) >> \o rest[2] >> ELSE rest

\* s: the bytes that arrive on the stream before it ends
from_bytes(s) ==
    IF Len(s) < 1 THEN DecodeErr("reading type byte", 0)
    ELSE LET type_byte == s[1]
             r == Tail(s)
         IN CASE type_byte = 32 ->
                   IF Len(r) < 1 THEN DecodeErr("early eof", type_byte)
                   ELSE LET plate_len == r[1]
                            r2 == Tail(r)
                        IN IF Len(r2) < plate_len THEN DecodeErr("early eof", type_byte)
                           ELSE IF Len(Drop(r2, plate_len)) < 4
                                THEN DecodeErr("early eof", type_byte)
                           ELSE DecodeOk([type |-> "Plate",
                                          plate |-> from_utf8_lossy(Take(r2, plate_len)),
                                          timestamp |-> be_u32(Drop(r2, plate_len))])
              [] type_byte = 64 ->
                   IF Len(r) < 4 THEN DecodeErr("early eof", type_byte)
                   ELSE DecodeOk([type |-> "WantHeartbeat", interval |-> be_u32(r)])
              [] type_byte = 128 ->
                   IF Len(r) < 6 THEN DecodeErr("early eof", type_byte)
                   ELSE DecodeOk([type |-> "IAmCamera",
                                  road |-> be_u16(r),
                                  mile |-> be_u16(Drop(r, 2)),
                                  limit |-> be_u16(Drop(r, 4))])
              [] type_byte = 129 ->
                   IF Len(r) < 1 THEN DecodeErr("early eof", type_byte)
                   ELSE LET numroads == r[1]
                            rd == read_roads(Tail(r), numroads)
                        IN IF rd[1]
                           THEN DecodeOk([type |-> "IAmDispatcher",
                                          numroads |-> numroads, roads |-> rd[2]])
                           ELSE DecodeErr("early eof", type_byte)
              [] OTHER -> DecodeErr("Unexpected client message type byte", type_byte)

(* ----------------------- ServerMessage::to_bytes ----------------------- *)
\* str::as_bytes / str::len of a string held as a sequence of chars:
\* an ASCII char is one byte, U+FFFD is the three bytes EF BF BD
RECURSIVE as_bytes(_)
\* (the string is split in halves so that long strings need few nested calls)
as_bytes(str) ==
    IF str = << >> THEN << >>
    ELSE IF Len(str) = 1
    THEN (IF str[1] < 128 THEN << str[1] >> ELSE << 239, 191, 189 >>)
    ELSE as_bytes(Take(str, Len(str) \div 2)) \o as_bytes(Drop(str, Len(str) \div 2))

\* to_bytes without the two length checks: the length byte is `len as u8`
to_bytes_unchecked(m) ==
    CASE m.type = "Error" ->
           [ok |-> TRUE,
            writes |-> << << 16 >>, << Len(as_bytes(m.msg)) % 256 >>, as_bytes(m.msg) >>]
      [] m.type = "Ticket" ->
           [ok |-> TRUE,
            writes |-> << << 33 >>, << Len(as_bytes(m.plate)) % 256 >>, as_bytes(m.plate),
                          u16_be(m.road), u16_be(m.mile1), u32_be(m.timestamp1),
                          u16_be(m.mile2), u32_be(m.timestamp2), u16_be(m.speed) >>]
      [] m.type = "Heartbeat" -> [ok |-> TRUE, writes |-> << << 65 >> >>]
      [] OTHER -> [ok |-> FALSE, writes |-> << >>]

\* [ok, writes]: the write calls on the BufWriter, in order; a bail! makes none
to_bytes(m) ==
    CASE m.type = "Error" ->
           IF Len(as_bytes(m.msg)) > MaxStrLen THEN [ok |-> FALSE, writes |-> << >>]
           ELSE [ok |-> TRUE,
                 writes |-> << << 16 >>, << Len(as_bytes(m.msg)) % 256 >>, as_bytes(m.msg) >>]
      [] m.type = "Ticket" ->
           IF Len(as_bytes(m.plate)) > MaxStrLen THEN [ok |-> FALSE, writes |-> << >>]
           ELSE [ok |-> TRUE,
                 writes |-> << << 33 >>, << Len(as_bytes(m.plate)) % 256 >>, as_bytes(m.plate),
                               u16_be(m.road), u16_be(m.mile1), u32_be(m.timestamp1),
                               u16_be(m.mile2), u32_be(m.timestamp2), u16_be(m.speed) >>]
      [] m.type = "Heartbeat" -> [ok |-> TRUE, writes |-> << << 65 >> >>]
      [] OTHER -> [ok |-> FALSE, writes |-> << >>]

\* tokio BufWriter::poll_write on w = [buf, wire, sock, failed]: the buffer is
\* flushed to the socket only when the next write does not fit; nothing else
\* flushes it. A flush to a socket the peer has reset returns the error and leaves
\* the buffer as it is (flush_buf is taken to write all of the buffer or nothing)
poll_write(w, chunk) ==
    IF Len(w.buf) + Len(chunk) > BufCapacity /\ Len(w.buf) > 0 /\ w.sock = "broken"
    THEN [w EXCEPT !.failed = TRUE]
    ELSE LET flushed == IF Len(w.buf) + Len(chunk) > BufCapacity
                        THEN [w EXCEPT !.buf = << >>, !.wire = w.wire \o w.buf]
                        ELSE w
         IN  IF Len(chunk) >= BufCapacity
             THEN IF w.sock = "broken" THEN [flushed EXCEPT !.failed = TRUE]
                  ELSE [flushed EXCEPT !.wire = @ \o chunk]
             ELSE [flushed EXCEPT !.buf = @ \o chunk]

RECURSIVE write_calls(_, _)
\* the `writer.write_..(..).await?` calls of to_bytes in order: the first one that
\* fails ends to_bytes
write_calls(w, chunks) ==
    IF chunks = << >> \/ w.failed THEN w
    ELSE write_calls(poll_write(w, Head(chunks)), Tail(chunks))

(* -------------------------- error messages ----------------------------- *)
\* "You are not a camera"
NotACamera == <<89,111,117,32,97,114,101,32,110,111,116,32,97,32,99,97,109,101,114,97>>
\* "Cannot request multiple heartbeats"
MultipleHeartbeats == <<67,97,110,110,111,116,32,114,101,113,117,101,115,116,32,109,117,108,116,105,112,108,101,32,104,101,97,114,116,98,101,97,116,115>>
\* "You are already a camera"
AlreadyCamera == <<89,111,117,32,97,114,101,32,97,108,114,101,97,100,121,32,97,32,99,97,109,101,114,97>>
\* "You are a camera, not a dispatcher"
CameraNotDispatcher == <<89,111,117,32,97,114,101,32,97,32,99,97,109,101,114,97,44,32,110,111,116,32,97,32,100,105,115,112,97,116,99,104,101,114>>
\* "You are a dispatcher, not a camera"
DispatcherNotCamera == <<89,111,117,32,97,114,101,32,97,32,100,105,115,112,97,116,99,104,101,114,44,32,110,111,116,32,97,32,99,97,109,101,114,97>>
\* "You are already a dispatcher"
AlreadyDispatcher == <<89,111,117,32,97,114,101,32,97,108,114,101,97,100,121,32,97,32,100,105,115,112,97,116,99,104,101,114>>

ErrorMsg(text) == [type |-> "Error", msg |-> text]
HeartbeatMsg == [type |-> "Heartbeat"]

(* ------------------------ hearbeat.interval * 100 ---------------------- *)
\* the exact product n * 100 in limbs of 16 bits: value = hi * 65536 + lo,
\* lo < 65536; the product fits a u32 iff hi < 65536
Times100(n) ==
    LET lo == (n % Limb) * MillisPerDecisecond
        hi == (n \div Limb) * MillisPerDecisecond + lo \div Limb
    IN  [hi |-> hi, lo |-> lo % Limb]

\* u32 multiplication without overflow checks: the low 32 bits
wrapping_mul_100(n) == [hi |-> Times100(n).hi % Limb, lo |-> Times100(n).lo]

mul_overflows(n) == Times100(n).hi >= Limb

(* ------------------------------ state --------------------------------- *)
VARIABLES
    overflow_checks,   \* build profile: TRUE panics on integer overflow, FALSE wraps
    pc,                \* handle_client of each connection: "idle", "loop", "done"
    result,            \* what handle_client returned (or that it panicked)
    heartbeat_running, \* let mut heartbeat_running
    client_state,      \* let mut client_state
    chan,              \* the mpsc channel (tx, rx) of each connection
    hb,                \* the task spawned for WantHeartbeat
    writer,            \* the task that drains rx: "none", "running", "dropped"
    wbuf,              \* bytes held in the BufWriter
    wire,              \* bytes written to the socket
    log,               \* the info! records "Received {plate:?} on {state:?}"
    main,              \* fn main: "accepting" in its loop, "returned" after `accept().await?` fails
    sock,              \* the write direction of each socket: "open", "broken" (reset by the peer)
    input,             \* the argument of a function that is run on its own
    output,            \* what that function returned
    \* the chat relay (src/bin/problem3.rs)
    task,              \* the task of each chat connection: "idle", "name", "joining", "chat", "done"
    username,          \* let username, of each connection's task
    usernames,         \* let mut usernames, of the manager task
    incoming_event,    \* the mpsc channel (incoming_event_tx, incoming_event_rx)
    user_list_reply,   \* the oneshot channel of each connection's Join
    outgoing_event,    \* every event sent on the broadcast channel, oldest first
    outgoing_event_rx, \* each connection's receiver: the number of events that lie behind it
    written,           \* the lines written to each connection's socket and flushed
    lines_read,        \* the number of chat lines read from each connection
    \* one session of the proxy (src/bin/problem5.rs)
    session,           \* fn forward: "idle", "forwarding", "ended"
    half,              \* the futures original_to_target ("o2t") and target_to_original ("t2o")
    read_lines,        \* what read_line has yielded in each direction, oldest first
    relayed,           \* the lines written and flushed in each direction, oldest first
    \* the price store (src/bin/problem2.rs)
    serving,           \* the handler of each connection: "idle", "loop", "done"
    entries,           \* let mut entries, of each handler: timestamp -> price
    received,          \* the messages read from each connection, oldest first
    replied            \* the replies written to each connection and flushed, oldest first

\* the state of the speed-camera server
camera_vars == << overflow_checks, pc, result, heartbeat_running, client_state, chan, hb,
                  writer, wbuf, wire, log, main, sock >>
\* the state of the chat relay
chat_vars == << task, username, usernames, incoming_event, user_list_reply, outgoing_event,
                outgoing_event_rx, written, lines_read >>
\* the state of the proxy session
proxy_vars == << session, half, read_lines, relayed >>
\* the state of the price store
store_vars == << serving, entries, received, replied >>
\* the state of the programs other than the speed-camera server
other_programs == << chat_vars, proxy_vars, store_vars >>

vars == << camera_vars, input, output, other_programs >>

Conns == 1..NumConns
RoadConns == 1..NumRoadConns

Connecting == [kind |-> "Connecting"]
NoTask == [pc |-> "none", interval |-> 0, duration |-> [hi |-> 0, lo |-> 0], beats |-> 0]
NoResult == [kind |-> "None", err |-> "", byte |-> 0]
OkResult == [kind |-> "Ok", err |-> "", byte |-> 0]
PanicResult == [kind |-> "Panic", err |-> "attempt to multiply with overflow", byte |-> 0]
ErrResult(d) == [kind |-> "Err", err |-> d.err, byte |-> d.byte]

\* the process after TcpListener::bind, before the first accept; S names the
\* connections the run will take
InitOver(S) ==
    /\ overflow_checks \in BOOLEAN
    /\ pc = [c \in S |-> "idle"]
    /\ result = [c \in S |-> NoResult]
    /\ heartbeat_running = [c \in S |-> FALSE]
    /\ client_state = [c \in S |-> Connecting]
    /\ chan = [c \in S |-> << >>]
    /\ hb = [c \in S |-> NoTask]
    /\ writer = [c \in S |-> "none"]
    /\ wbuf = [c \in S |-> << >>]
    /\ wire = [c \in S |-> << >>]
    /\ log = << >>
    /\ main = "accepting"
    /\ sock = [c \in S |-> "open"]

\* no function is run on its own
Idle == [fn |-> "none"]
NoCall == input = Idle /\ output = Idle

\* the chat relay is not running
NoChat ==
    /\ task = << >> /\ username = << >> /\ usernames = {}
    /\ incoming_event = << >> /\ user_list_reply = << >>
    /\ outgoing_event = << >> /\ outgoing_event_rx = << >>
    /\ written = << >> /\ lines_read = << >>
\* the proxy is not running
NoProxy == session = "idle" /\ half = << >> /\ read_lines = << >> /\ relayed = << >>
\* the price store is not running
NoStore == serving = << >> /\ entries = << >> /\ received = << >> /\ replied = << >>
\* the speed-camera server is the only program that runs
OnlyCameras == NoChat /\ NoProxy /\ NoStore

Init == InitOver(Conns) /\ NoCall /\ OnlyCameras
\* (no product is computed in the runs of SpecRoads: one build stands for both)
InitRoads == InitOver(RoadConns) /\ overflow_checks = FALSE /\ NoCall /\ OnlyCameras

(* ------------------------- what clients send --------------------------- *)
\* Plate { plate: "A", timestamp: 0 } and { plate: "A", timestamp: 3600 }
PlateFrames == { <<32, 1, 65, 0, 0, 14, 16>> }
\* WantHeartbeat { interval: 0 }, { interval: 1 }, { interval: 42949673 }
HeartbeatFrames == { <<64, 0, 0, 0, 0>>, <<64, 0, 0, 0, 1>>, <<64, 2, 143, 92, 41>> }
\* IAmCamera { road: 1, mile: 0, limit: 60 } and { road: 1, mile: 100, limit: 60 }
CameraFrames == { <<128, 0, 1, 0, 100, 0, 60>> }
\* IAmDispatcher { numroads: 1, roads: [1] }
DispatcherFrames == { <<129, 1, 0, 1>> }
\* an unknown type byte; a Plate cut off before its timestamp; a stream that just ends
BadFrames == { <<255>>, <<32, 1, 65, 0>>, << >> }

ClientFrames == PlateFrames \cup HeartbeatFrames \cup CameraFrames
                \cup DispatcherFrames \cup BadFrames

\* two cameras of road 1 (mile 0 and mile 100, limit 60), the plate "A" seen at
\* t = 0 and at t = 3600, and a dispatcher of road 1
RoadFrames == { <<128, 0, 1, 0, 0, 0, 60>>, <<128, 0, 1, 0, 100, 0, 60>>,
                <<32, 1, 65, 0, 0, 0, 0>>, <<32, 1, 65, 0, 0, 14, 16>>,
                <<129, 1, 0, 1>> }

\* what from_bytes makes of them
ClientDecoded == { from_bytes(b) : b \in ClientFrames }
RoadDecoded == { from_bytes(b) : b \in RoadFrames }

(* ------------------------------ actions -------------------------------- *)
\* main: listener.accept() and tokio::spawn(handle_client); handle_client up to
\* its loop: the channel and the writer task exist, nothing has been read
Accept(c) ==
    /\ main = "accepting"
    /\ pc[c] = "idle"
    /\ \A d \in DOMAIN pc : d < c => pc[d] # "idle"
    /\ pc' = [pc EXCEPT ![c] = "loop"]
    /\ writer' = [writer EXCEPT ![c] = "running"]
    /\ UNCHANGED << main, sock, input, output, other_programs >>
    /\ UNCHANGED << overflow_checks, result, heartbeat_running, client_state, chan, hb,
                    wbuf, wire, log >>

\* the senders of the connection's channel that are alive: handle_client's tx
\* and the tx moved into the heartbeat task
Senders(c) ==
    (IF pc[c] = "loop" THEN 1 ELSE 0) + (IF hb[c].pc = "running" THEN 1 ELSE 0)

\* `tx.send(ServerMessage::Error(..)).await; break;` and the `Ok(())` after the loop
\* (send waits while the channel is full; the receiver lives as long as a sender does)
SendErrorAndBreak(c, text) ==
    /\ Len(chan[c]) < ChannelCapacity
    /\ chan' = [chan EXCEPT ![c] = Append(@, ErrorMsg(text))]
    /\ pc' = [pc EXCEPT ![c] = "done"]
    /\ result' = [result EXCEPT ![c] = OkResult]

\* In the actions of the read loop, d is what `from_bytes(&mut reader).await` returns
\* for the bytes the client sends next.

\* DecodeFails in a main that awaits handle_client itself with `?` instead of
\* spawning it: the error of the connection ends main
DecodeFailsEndsMain(c, d) ==
    /\ main = "accepting"
    /\ pc[c] = "loop"
    /\ ~d.ok
    /\ pc' = [pc EXCEPT ![c] = "done"]
    /\ result' = [result EXCEPT ![c] = ErrResult(d)]
    /\ main' = "returned"
    /\ UNCHANGED << sock, input, output, other_programs >>
    /\ UNCHANGED << overflow_checks, heartbeat_running, client_state, chan, hb, writer,
                    wbuf, wire, log >>

\* `from_bytes(&mut reader).await?` returns an error: handle_client returns it
DecodeFails(c, d) ==
    /\ main = "accepting"
    /\ pc[c] = "loop"
    /\ ~d.ok
    /\ pc' = [pc EXCEPT ![c] = "done"]
    /\ result' = [result EXCEPT ![c] = ErrResult(d)]
    /\ UNCHANGED << main, sock, input, output, other_programs >>
    /\ UNCHANGED << overflow_checks, heartbeat_running, client_state, chan, hb, writer,
                    wbuf, wire, log >>

\* match arm ClientMessage::Plate
OnPlate(c, d) ==
    /\ main = "accepting"
    /\ pc[c] = "loop"
    /\ d.ok /\ d.msg.type = "Plate"
    /\ IF client_state[c].kind = "Camera"
       THEN /\ Len(log) < MaxLog
            /\ log' = Append(log, [plate |-> d.msg, state |-> client_state[c].state])
            /\ UNCHANGED << pc, result, chan >>
       ELSE /\ SendErrorAndBreak(c, NotACamera)
            /\ UNCHANGED log
    /\ UNCHANGED << main, sock, input, output, other_programs >>
    /\ UNCHANGED << overflow_checks, heartbeat_running, client_state, hb, writer, wbuf, wire >>

\* match arm ClientMessage::WantHeartbeat
OnWantHeartbeat(c, d) ==
    /\ main = "accepting"
    /\ pc[c] = "loop"
    /\ d.ok /\ d.msg.type = "WantHeartbeat"
    /\ IF heartbeat_running[c]
       THEN /\ SendErrorAndBreak(c, MultipleHeartbeats)
            /\ UNCHANGED << heartbeat_running, hb >>
       ELSE IF mul_overflows(d.msg.interval) /\ overflow_checks
       THEN /\ pc' = [pc EXCEPT ![c] = "done"]
            /\ result' = [result EXCEPT ![c] = PanicResult]
            /\ UNCHANGED << heartbeat_running, hb, chan >>
       ELSE /\ hb' = [hb EXCEPT ![c] = [pc |-> "running", interval |-> d.msg.interval,
                                        duration |-> wrapping_mul_100(d.msg.interval),
                                        beats |-> 0]]
            /\ heartbeat_running' = [heartbeat_running EXCEPT ![c] = TRUE]
            /\ UNCHANGED << pc, result, chan >>
    /\ UNCHANGED << main, sock, input, output, other_programs >>
    /\ UNCHANGED << overflow_checks, client_state, writer, wbuf, wire, log >>

\* match arm ClientMessage::IAmCamera
OnIAmCamera(c, d) ==
    /\ main = "accepting"
    /\ pc[c] = "loop"
    /\ d.ok /\ d.msg.type = "IAmCamera"
    /\ CASE client_state[c].kind = "Camera" ->
              SendErrorAndBreak(c, AlreadyCamera) /\ UNCHANGED client_state
         [] client_state[c].kind = "Dispatcher" ->
              SendErrorAndBreak(c, CameraNotDispatcher) /\ UNCHANGED client_state
         [] OTHER ->
              /\ client_state' = [client_state EXCEPT ![c] = [kind |-> "Camera", state |-> d.msg]]
              /\ UNCHANGED << pc, result, chan >>
    /\ UNCHANGED << main, sock, input, output, other_programs >>
    /\ UNCHANGED << overflow_checks, heartbeat_running, hb, writer, wbuf, wire, log >>

\* OnIAmDispatcher with the Camera arm lost: a camera that sends IAmDispatcher
\* is made a dispatcher
OnIAmDispatcherRebinds(c, d) ==
    /\ main = "accepting"
    /\ pc[c] = "loop"
    /\ d.ok /\ d.msg.type = "IAmDispatcher"
    /\ CASE client_state[c].kind = "Dispatcher" ->
              SendErrorAndBreak(c, AlreadyDispatcher) /\ UNCHANGED client_state
         [] OTHER ->
              /\ client_state' = [client_state EXCEPT ![c] = [kind |-> "Dispatcher", state |-> d.msg]]
              /\ UNCHANGED << pc, result, chan >>
    /\ UNCHANGED << main, sock, input, output, other_programs >>
    /\ UNCHANGED << overflow_checks, heartbeat_running, hb, writer, wbuf, wire, log >>

\* match arm ClientMessage::IAmDispatcher
OnIAmDispatcher(c, d) ==
    /\ main = "accepting"
    /\ pc[c] = "loop"
    /\ d.ok /\ d.msg.type = "IAmDispatcher"
    /\ CASE client_state[c].kind = "Camera" ->
              SendErrorAndBreak(c, DispatcherNotCamera) /\ UNCHANGED client_state
         [] client_state[c].kind = "Dispatcher" ->
              SendErrorAndBreak(c, AlreadyDispatcher) /\ UNCHANGED client_state
         [] OTHER ->
              /\ client_state' = [client_state EXCEPT ![c] = [kind |-> "Dispatcher", state |-> d.msg]]
              /\ UNCHANGED << pc, result, chan >>
    /\ UNCHANGED << main, sock, input, output, other_programs >>
    /\ UNCHANGED << overflow_checks, heartbeat_running, hb, writer, wbuf, wire, log >>

\* the heartbeat task, one turn of its loop: `tx.send(ServerMessage::Heartbeat(..))`
\* and then `tokio::time::sleep(duration)`; a failed send (receiver gone) ends the task
HeartbeatLoop(c) ==
    /\ main = "accepting"
    /\ hb[c].pc = "running"
    /\ IF writer[c] # "running"
       THEN /\ hb' = [hb EXCEPT ![c].pc = "end"]
            /\ UNCHANGED chan
       ELSE /\ hb[c].beats < MaxBeats
            /\ Len(chan[c]) < ChannelCapacity
            /\ chan' = [chan EXCEPT ![c] = Append(@, HeartbeatMsg)]
            /\ hb' = [hb EXCEPT ![c].beats = @ + 1]
    /\ UNCHANGED << main, sock, input, output, other_programs >>
    /\ UNCHANGED << overflow_checks, pc, result, heartbeat_running, client_state, writer,
                    wbuf, wire, log >>

\* WriterRecv with a receiver that yields the newest message first
WriterRecvNewest(c) ==
    /\ main = "accepting"
    /\ writer[c] = "running"
    /\ chan[c] # << >>
    /\ LET w == write_calls([buf |-> wbuf[c], wire |-> wire[c], sock |-> sock[c],
                              failed |-> FALSE], to_bytes(chan[c][Len(chan[c])]).writes)
       IN  /\ wbuf' = [wbuf EXCEPT ![c] = w.buf]
           /\ wire' = [wire EXCEPT ![c] = w.wire]
    /\ chan' = [chan EXCEPT ![c] = Take(@, Len(@) - 1)]
    /\ UNCHANGED << main, sock, input, output, other_programs >>
    /\ UNCHANGED << overflow_checks, pc, result, heartbeat_running, client_state, hb,
                    writer, log >>

\* the writer task: rx.recv() yields a message, message.to_bytes(&mut writer)
WriterRecv(c) ==
    /\ main = "accepting"
    /\ writer[c] = "running"
    /\ chan[c] # << >>
    /\ LET w == write_calls([buf |-> wbuf[c], wire |-> wire[c], sock |-> sock[c],
                              failed |-> FALSE], to_bytes(Head(chan[c])).writes)
       IN  /\ wbuf' = [wbuf EXCEPT ![c] = w.buf]
           /\ wire' = [wire EXCEPT ![c] = w.wire]
    /\ chan' = [chan EXCEPT ![c] = Tail(@)]
    /\ UNCHANGED << main, sock, input, output, other_programs >>
    /\ UNCHANGED << overflow_checks, pc, result, heartbeat_running, client_state, hb,
                    writer, log >>

\* the writer task: rx.recv() yields None (the channel is empty and every sender
\* is dropped); the task ends and drops the BufWriter and the OwnedWriteHalf, which
\* shuts the write direction down. Nothing flushes the buffer: from here on wbuf
\* holds the bytes that were discarded with it
WriterExit(c) ==
    /\ main = "accepting"
    /\ writer[c] = "running"
    /\ chan[c] = << >>
    /\ Senders(c) = 0
    /\ writer' = [writer EXCEPT ![c] = "dropped"]
    /\ UNCHANGED << main, sock, input, output, other_programs >>
    /\ UNCHANGED << overflow_checks, pc, result, heartbeat_running, client_state, chan, hb,
                    wbuf, wire, log >>

\* the peer resets connection c: from here on a write to the socket fails
PeerReset(c) ==
    /\ main = "accepting"
    /\ pc[c] # "idle"
    /\ sock[c] = "open"
    /\ sock' = [sock EXCEPT ![c] = "broken"]
    /\ UNCHANGED << main, input, output, other_programs >>
    /\ UNCHANGED << overflow_checks, pc, result, heartbeat_running, client_state, chan, hb,
                    writer, wbuf, wire, log >>

\* main: `listener.accept().await?` fails: main returns the error, the runtime is
\* dropped with it and every task of the process ends where it is
AcceptFails ==
    /\ main = "accepting"
    /\ main' = "returned"
    /\ UNCHANGED << sock, input, output, other_programs >>
    /\ UNCHANGED << overflow_checks, pc, result, heartbeat_running, client_state, chan, hb,
                    writer, wbuf, wire, log >>

Next ==
    \/ AcceptFails
    \/ \E c \in Conns :
        \/ Accept(c)
        \/ PeerReset(c)
        \/ \E d \in ClientDecoded :
             \/ DecodeFails(c, d)
             \/ OnPlate(c, d)
             \/ OnWantHeartbeat(c, d)
             \/ OnIAmCamera(c, d)
             \/ OnIAmDispatcher(c, d)
        \/ HeartbeatLoop(c)
        \/ WriterRecv(c)
        \/ WriterExit(c)

Spec == Init /\ [][Next]_vars

\* cameras and dispatchers of one road: no heartbeat is asked for and no frame is malformed
NextRoads ==
    \E c \in RoadConns :
        \/ Accept(c)
        \/ \E d \in RoadDecoded :
             \/ OnPlate(c, d)
             \/ OnIAmCamera(c, d)
             \/ OnIAmDispatcher(c, d)
        \/ WriterRecv(c)
        \/ WriterExit(c)

SpecRoads == InitRoads /\ [][NextRoads]_vars

(* -------------------- two connections side by side --------------------- *)
\* Plate { "A", 3600 }, WantHeartbeat { 1 }, WantHeartbeat { 42949673 } (its
\* product overflows), IAmCamera { road 1, mile 100, limit 60 }, an unknown type
\* byte, and a stream that ends or fails
PairFrames == { << 32, 1, 65, 0, 0, 14, 16 >>, << 64, 0, 0, 0, 1 >>, << 64, 2, 143, 92, 41 >>,
                << 128, 0, 1, 0, 100, 0, 60 >>, << 255 >>, << >> }
PairDecoded == { from_bytes(b) : b \in PairFrames }
PairConns == 1..NumPairConns

\* (the build that checks for overflow: there the product of the third frame
\* panics; the build that wraps is run with one connection in Spec)
InitPair == InitOver(PairConns) /\ overflow_checks = TRUE /\ NoCall /\ OnlyCameras

NextPair ==
    \/ AcceptFails
    \/ \E c \in PairConns :
        \/ Accept(c)
        \/ PeerReset(c)
        \/ \E d \in PairDecoded :
             \/ DecodeFails(c, d)
             \/ OnPlate(c, d)
             \/ OnWantHeartbeat(c, d)
             \/ OnIAmCamera(c, d)
        \/ HeartbeatLoop(c)
        \/ WriterRecv(c)
        \/ WriterExit(c)

SpecPair == InitPair /\ [][NextPair]_vars

(* ------------- two cameras and the dispatchers of one road ------------- *)
\* connections 1 and 2 are the clients that send camera frames (IAmCamera of
\* road 1 at mile 0 or 100, Plate "A" at t = 0 or 3600), the later connections
\* are the clients that send IAmDispatcher { roads: [1] }
DispatchConns == 1..NumDispatchConns
CameraClients == { 1, 2 }
DispatcherClients == DispatchConns \ CameraClients
CameraDecoded == { from_bytes(b) : b \in RoadFrames \ DispatcherFrames }
DispatcherDecoded == { from_bytes(b) : b \in DispatcherFrames }

InitDispatch == InitOver(DispatchConns) /\ overflow_checks = FALSE /\ NoCall /\ OnlyCameras

NextDispatch ==
    \/ \E c \in DispatchConns :
          \/ Accept(c)
          \/ WriterRecv(c)
          \/ WriterExit(c)
    \/ \E c \in CameraClients : \E d \in CameraDecoded :
          \/ OnPlate(c, d)
          \/ OnIAmCamera(c, d)
    \/ \E c \in DispatcherClients : \E d \in DispatcherDecoded : OnIAmDispatcher(c, d)

SpecDispatch == InitDispatch /\ [][NextDispatch]_vars

(* --------------- a connection whose BufWriter is nearly full ------------ *)
\* One connection, late in its life: it asked for a Heartbeat every 100 ms long
\* ago and has sent nothing else, the writer task has put BufCapacity - 2 or more
\* Heartbeat bytes into the BufWriter (after the last flush, if there was one),
\* the channel is empty. hb.beats counts the Heartbeats sent from here on.
FullConns == { 1 }
FlushFrames == { << 32, 1, 65, 0, 0, 14, 16 >>, << 64, 0, 0, 0, 1 >>, << 255 >> }
FlushDecoded == { from_bytes(b) : b \in FlushFrames }

InitFlush ==
    /\ overflow_checks = FALSE
    /\ pc = [c \in FullConns |-> "loop"]
    /\ result = [c \in FullConns |-> NoResult]
    /\ heartbeat_running = [c \in FullConns |-> TRUE]
    /\ client_state = [c \in FullConns |-> Connecting]
    /\ chan = [c \in FullConns |-> << >>]
    /\ hb = [c \in FullConns |-> [pc |-> "running", interval |-> 1,
                                   duration |-> wrapping_mul_100(1), beats |-> 0]]
    /\ writer = [c \in FullConns |-> "running"]
    /\ \E n \in (BufCapacity - 2)..BufCapacity :
          wbuf = [c \in FullConns |-> [i \in 1..n |-> 65]]
    /\ wire = [c \in FullConns |-> << >>]
    /\ log = << >>
    /\ main = "accepting"
    /\ sock = [c \in FullConns |-> "open"]
    /\ NoCall /\ OnlyCameras

NextFlush ==
    \E c \in FullConns :
        \/ PeerReset(c)
        \/ \E d \in FlushDecoded :
             \/ DecodeFails(c, d)
             \/ OnPlate(c, d)
             \/ OnWantHeartbeat(c, d)
        \/ HeartbeatLoop(c)
        \/ WriterRecv(c)

SpecFlush == InitFlush /\ [][NextFlush]_vars

(* ------------------- from_bytes run on its own ------------------------- *)
\* whole client frames: Plate with a plate of 0..MaxPlateLen bytes "A" or of one
\* byte that is not ASCII, WantHeartbeat, IAmCamera, IAmDispatcher with
\* 0..MaxRoads roads
WholeFrames ==
    { << 32, n >> \o [i \in 1..n |-> 65] \o << 0, 0, 14, 16 >> : n \in 0..MaxPlateLen }
    \cup { << 32, 1, 200, 0, 0, 0, 0 >> }
    \cup { << 64, 0, 0, 0, 1 >>, << 64, 2, 143, 92, 41 >> }
    \cup { << 128, 0, 1, 0, 100, 0, 60 >> }
    \cup { << 129, n >> \o [i \in 1..(2 * n) |-> i % 2] : n \in 0..MaxRoads }

\* the type bytes of the match in from_bytes: 0x20, 0x40, 0x80, 0x81
KnownTypeBytes == { 32, 64, 128, 129 }

\* what a stream can hold when it ends: a whole frame cut anywhere (also before
\* its first byte), a whole frame and the first byte of the next one, or any
\* other type byte on its own or followed by six bytes
DecodeInputs ==
    UNION { { Take(f, k) : k \in 0..Len(f) } : f \in WholeFrames }
    \cup { f \o << 32 >> : f \in WholeFrames }
    \cup { << b >> \o t : b \in (0..255) \ KnownTypeBytes,
                          t \in { << >>, << 0, 1, 0, 100, 0, 60 >> } }

InitDecode ==
    /\ InitOver({}) /\ overflow_checks = FALSE /\ OnlyCameras
    /\ input \in { [fn |-> "from_bytes", reader |-> s] : s \in DecodeInputs }
    /\ output = Idle

\* ClientMessage::from_bytes(&mut reader) on a stream that holds input.reader and
\* then ends
Decode ==
    /\ input.fn = "from_bytes"
    /\ output = Idle
    /\ output' = [fn |-> "from_bytes", val |-> from_bytes(input.reader)]
    /\ UNCHANGED << main, sock, input, other_programs >>
    /\ UNCHANGED << overflow_checks, pc, result, heartbeat_running, client_state, chan, hb,
                    writer, wbuf, wire, log >>

SpecDecode == InitDecode /\ [][Decode]_vars

(* -------------------- to_bytes run on its own --------------------------- *)
\* strings of 0, 1, MaxStrLen and MaxStrLen + 1 chars 'x', and of 85 and 86 chars
\* U+FFFD (what from_utf8_lossy makes of bytes that are not UTF-8): 255 and 258 bytes
EncodeStrings ==
    { [i \in 1..n |-> 120] : n \in { 0, 1, MaxStrLen, MaxStrLen + 1 } }
    \cup { [i \in 1..n |-> 65533] : n \in { MaxStrLen \div 3, MaxStrLen \div 3 + 1 } }
EncodeMessages ==
    { HeartbeatMsg }
    \cup { ErrorMsg(t) : t \in EncodeStrings \cup { NotACamera } }
    \cup { [type |-> "Ticket", plate |-> p, road |-> 1, mile1 |-> 0, timestamp1 |-> 0,
            mile2 |-> 100, timestamp2 |-> 3600, speed |-> 10000] : p \in EncodeStrings }
    \cup { [type |-> "Ticket", plate |-> p, road |-> 65535, mile1 |-> 65535,
            timestamp1 |-> 2147483646, mile2 |-> 256, timestamp2 |-> 2147483647,
            speed |-> 65535] : p \in EncodeStrings }
\* the BufWriter the writer task hands to to_bytes: empty, one byte below its
\* capacity or full (of Heartbeat bytes), on a socket that is open or reset
EncodeWriters ==
    { [buf |-> [i \in 1..n |-> 65], wire |-> << >>, sock |-> k, failed |-> FALSE] :
        n \in { 0, BufCapacity - 1, BufCapacity }, k \in { "open", "broken" } }

InitEncode ==
    /\ InitOver({}) /\ overflow_checks = FALSE /\ OnlyCameras
    /\ input \in { [fn |-> "to_bytes", msg |-> m, writer |-> w] :
                      m \in EncodeMessages, w \in EncodeWriters }
    /\ output = Idle

\* message.to_bytes(&mut writer): Err on a bail! and on the first write that fails
Encode ==
    /\ input.fn = "to_bytes"
    /\ output = Idle
    /\ LET w == write_calls(input.writer, to_bytes(input.msg).writes)
       IN  output' = [fn |-> "to_bytes", ok |-> to_bytes(input.msg).ok /\ ~w.failed,
                      buf |-> w.buf, wire |-> w.wire]
    /\ UNCHANGED << main, sock, input, other_programs >>
    /\ UNCHANGED << overflow_checks, pc, result, heartbeat_running, client_state, chan, hb,
                    writer, wbuf, wire, log >>

SpecEncode == InitEncode /\ [][Encode]_vars

(* ------------- do_the_boguscoin_rewrite (src/bin/problem5.rs) ----------- *)
\* A string is the sequence of its chars (code points).
\* const TONY: &str = "7YWHMfk9JZe0LM0g1ZauHuiSxhI"
TONY == <<55,89,87,72,77,102,107,57,74,90,101,48,76,77,48,103,49,90,97,117,72,117,105,83,120,104,73>>

\* char::len_utf8
len_utf8(ch) == IF ch < 128 THEN 1 ELSE IF ch < 2048 THEN 2 ELSE IF ch < 65536 THEN 3 ELSE 4
RECURSIVE str_len(_)
\* str::len : the length of the string in bytes
str_len(str) == IF str = << >> THEN 0 ELSE len_utf8(Head(str)) + str_len(Tail(str))
\* char::is_alphanumeric on the chars of this model: the ASCII digits and letters
\* and U+00E9 (a letter outside ASCII) are alphanumeric, punctuation is not
is_alphanumeric(ch) == ch \in (48..57) \cup (65..90) \cup (97..122) \cup { 233 }
\* u8::is_ascii_whitespace : space, tab, line feed, form feed, carriage return
is_ascii_whitespace(ch) == ch \in { 32, 9, 10, 12, 13 }
\* input.strip_suffix('\n').unwrap_or(input)
strip_suffix_newline(str) ==
    IF str # << >> /\ str[Len(str)] = 10 THEN Take(str, Len(str) - 1) ELSE str

RECURSIVE split_ascii_whitespace(_)
\* str::split_ascii_whitespace : the maximal runs of chars that are not whitespace
split_ascii_whitespace(str) ==
    IF str = << >> THEN << >>
    ELSE IF is_ascii_whitespace(Head(str)) THEN split_ascii_whitespace(Tail(str))
    ELSE LET spaces == { i \in 1..Len(str) : is_ascii_whitespace(str[i]) }
             n == IF spaces = {} THEN Len(str)
                  ELSE (CHOOSE i \in spaces : \A j \in spaces : i <= j) - 1
         IN  << Take(str, n) >> \o split_ascii_whitespace(Drop(str, n))

RECURSIVE join(_, _)
\* [&str]::join
join(words, sep) ==
    IF words = << >> THEN << >>
    ELSE IF Len(words) = 1 THEN words[1]
    ELSE words[1] \o sep \o join(Tail(words), sep)

do_the_boguscoin_rewrite(line) ==
    LET words == split_ascii_whitespace(strip_suffix_newline(line))
        replaced == [i \in 1..Len(words) |->
                       IF /\ words[i][1] = 55
                          /\ str_len(words[i]) >= 26
                          /\ str_len(words[i]) <= 35
                          /\ \A k \in 1..Len(words[i]) : is_alphanumeric(words[i][k])
                       THEN TONY ELSE words[i]]
    IN  join(replaced, << 32 >>)

\* the words of the lines of test_bogus_rewrite
TestWords1 ==
      << <<72,105>>,
         <<97,108,105,99,101,44>>,
         <<112,108,101,97,115,101>>,
         <<115,101,110,100>>,
         <<112,97,121,109,101,110,116>>,
         <<116,111>>,
         <<55,105,75,68,90,69,119,80,90,83,113,73,118,68,110,72,118,86,78,50,114,48,104,85,87,88,68,53,114,72,88>> >>
TestWords2 ==
      << <<91,80,114,111,116,111,77,105,107,101,55,49,56,93>>,
         <<83,101,110,100>>,
         <<114,101,102,117,110,100,115>>,
         <<116,111>>,
         <<55,103,50,103,81,57,73,121,68,119,104,87,66,73,86,52,70,48,108,109,109,78,89,85,89,76,54,109,87>>,
         <<112,108,101,97,115,101,46>> >>

\* a word of n chars: first, then 'a's, then last
WordOf(first, n, last) == << first >> \o [i \in 1..(n - 2) |-> 97] \o << last >>
\* words that start with '7' or with 'a', are 25, 26, 35 or 36 chars long and end
\* with 'a', with U+00E9 or with '.'
RewriteWords == { WordOf(first, n, last) : first \in { 55, 97 }, n \in { 25, 26, 35, 36 },
                                          last \in { 97, 233, 46 } }
WordLists == UNION { [1..n -> RewriteWords] : n \in 0..MaxWords } \cup { TestWords1, TestWords2 }
\* lines of these words: one space or a tab and a space between two words, with
\* and without the line feed that read_line leaves at the end
RewriteInputs ==
    { [fn |-> "do_the_boguscoin_rewrite", words |-> ws, line |-> join(ws, sep) \o end] :
        ws \in WordLists, sep \in { << 32 >>, << 9, 32 >> }, end \in { << 10 >>, << >> } }

InitRewrite ==
    /\ InitOver({}) /\ overflow_checks = FALSE /\ OnlyCameras
    /\ input \in RewriteInputs
    /\ output = Idle

\* do_the_boguscoin_rewrite(&line)
Rewrite ==
    /\ input.fn = "do_the_boguscoin_rewrite"
    /\ output = Idle
    /\ output' = [fn |-> "do_the_boguscoin_rewrite", val |-> do_the_boguscoin_rewrite(input.line)]
    /\ UNCHANGED << main, sock, input, other_programs >>
    /\ UNCHANGED << overflow_checks, pc, result, heartbeat_running, client_state, chan, hb,
                    writer, wbuf, wire, log >>

SpecRewrite == InitRewrite /\ [][Rewrite]_vars

(* ---------------------- chat relay (src/bin/problem3.rs) ---------------- *)
\* char::is_whitespace on the chars of this model
is_whitespace(ch) == ch \in { 9, 10, 11, 12, 13, 32 }
RECURSIVE trim(_)
\* str::trim : without the whitespace at its start and at its end
trim(str) ==
    IF str = << >> THEN << >>
    ELSE IF is_whitespace(Head(str)) THEN trim(Tail(str))
    ELSE IF is_whitespace(str[Len(str)]) THEN trim(Take(str, Len(str) - 1))
    ELSE str

\* Username::new : [ok, name]
Username_new(name) ==
    IF name = << >> THEN [ok |-> FALSE, name |-> << >>]
    ELSE IF \E k \in 1..Len(name) : ~is_alphanumeric(name[k])
    THEN [ok |-> FALSE, name |-> << >>]
    ELSE [ok |-> TRUE, name |-> name]

\* enum IncomingEvent: Join(name, reply), Part(name), Message(name, content);
\* reply is the connection that holds the receiving end of the oneshot channel
\* of a Join, 0 where there is none
IncomingEvent(type, name, content, reply) ==
    [type |-> type, username |-> name, content |-> content, reply |-> reply]
\* enum OutgoingEvent: the event without the reply
OutgoingEvent(event) ==
    [type |-> event.type, username |-> event.username, content |-> event.content]

\* b"name?\n"
NamePrompt == << 110, 97, 109, 101, 63, 10 >>
\* format!("* LIST: {user_list}\n")
ListLine(user_list) == << 42, 32, 76, 73, 83, 84, 58, 32 >> \o user_list \o << 10 >>
\* format!("* JOIN: {}\n", ..), format!("* PART: {}\n", ..) and
\* format!("[{}] {}\n", author.get(), content.get())
OutgoingLine(event) ==
    CASE event.type = "Join" -> << 42, 32, 74, 79, 73, 78, 58, 32 >> \o event.username \o << 10 >>
      [] event.type = "Part" -> << 42, 32, 80, 65, 82, 84, 58, 32 >> \o event.username \o << 10 >>
      [] OTHER -> << 91 >> \o event.username \o << 93, 32 >> \o event.content \o << 10 >>

\* usernames.iter() : the names of the set in an order the HashSet chooses
Orderings(S) ==
    { order \in [1..Cardinality(S) -> S] :
        \A i, j \in 1..Cardinality(S) : i # j => order[i] # order[j] }

ChatConns == 1..NumChatConns
NoReply == [sent |-> FALSE, val |-> << >>]

\* what read_line yields at the name prompt: "a\n", "b\r\n", " a\n" (trimmed to
\* "a"), "\n" (an empty name), "a!\n" (not alphanumeric), and nothing
\* (the peer has closed)
NameLines == { << 97, 10 >>, << 98, 13, 10 >>, << 32, 97, 10 >>, << 10 >>, << 97, 33, 10 >>, << >> }
\* what lines.next_line() yields for connection c: the digit of c
ChatLine(c) == << 48 + c >>

\* the process after the manager task is spawned, before the first accept
InitChat ==
    /\ InitOver({}) /\ overflow_checks = FALSE /\ NoCall /\ NoProxy /\ NoStore
    /\ task = [c \in ChatConns |-> "idle"]
    /\ username = [c \in ChatConns |-> << >>]
    /\ usernames = {}
    /\ incoming_event = << >>
    /\ user_list_reply = [c \in ChatConns |-> NoReply]
    /\ outgoing_event = << >>
    /\ outgoing_event_rx = [c \in ChatConns |-> 0]
    /\ written = [c \in ChatConns |-> << >>]
    /\ lines_read = [c \in ChatConns |-> 0]

\* main: listener.accept(), outgoing_event_tx.subscribe() and tokio::spawn; the
\* task up to read_line: the prompt is written and flushed
ChatAccept(c) ==
    /\ task[c] = "idle"
    /\ \A d \in ChatConns : d < c => task[d] # "idle"
    /\ task' = [task EXCEPT ![c] = "name"]
    /\ outgoing_event_rx' = [outgoing_event_rx EXCEPT ![c] = Len(outgoing_event)]
    /\ written' = [written EXCEPT ![c] = Append(@, NamePrompt)]
    /\ UNCHANGED << username, usernames, incoming_event, user_list_reply, outgoing_event,
                    lines_read >>
    /\ UNCHANGED << camera_vars, input, output, proxy_vars, store_vars >>

\* the task from read_line to `user_list_reply.await`: line is what read_line
\* appends to username; nothing read or a name that Username::new refuses ends
\* the task, a name it takes is sent to the manager in a Join
ReadName(c, line) ==
    /\ task[c] = "name"
    /\ IF line = << >> \/ ~Username_new(trim(line)).ok
       THEN /\ task' = [task EXCEPT ![c] = "done"]
            /\ UNCHANGED << username, incoming_event >>
       ELSE /\ Len(incoming_event) < IncomingCapacity
            /\ username' = [username EXCEPT ![c] = Username_new(trim(line)).name]
            /\ incoming_event' = Append(incoming_event,
                                        IncomingEvent("Join", Username_new(trim(line)).name, << >>, c))
            /\ task' = [task EXCEPT ![c] = "joining"]
    /\ UNCHANGED << usernames, user_list_reply, outgoing_event, outgoing_event_rx, written,
                    lines_read >>
    /\ UNCHANGED << camera_vars, input, output, proxy_vars, store_vars >>

\* the manager task, match arm IncomingEvent::Join
ManagerJoin ==
    /\ incoming_event # << >>
    /\ Head(incoming_event).type = "Join"
    /\ \E order \in Orderings(usernames) :
          user_list_reply' = [user_list_reply EXCEPT ![Head(incoming_event).reply] =
                                 [sent |-> TRUE, val |-> join(order, << 44, 32 >>)]]
    /\ usernames' = usernames \cup { Head(incoming_event).username }
    /\ outgoing_event' = Append(outgoing_event, OutgoingEvent(Head(incoming_event)))
    /\ incoming_event' = Tail(incoming_event)
    /\ UNCHANGED << task, username, outgoing_event_rx, written, lines_read >>
    /\ UNCHANGED << camera_vars, input, output, proxy_vars, store_vars >>

\* the manager task, match arm IncomingEvent::Part
ManagerPart ==
    /\ incoming_event # << >>
    /\ Head(incoming_event).type = "Part"
    /\ usernames' = usernames \ { Head(incoming_event).username }
    /\ outgoing_event' = Append(outgoing_event, OutgoingEvent(Head(incoming_event)))
    /\ incoming_event' = Tail(incoming_event)
    /\ UNCHANGED << task, username, user_list_reply, outgoing_event_rx, written, lines_read >>
    /\ UNCHANGED << camera_vars, input, output, proxy_vars, store_vars >>

\* the manager task, match arm IncomingEvent::Message
ManagerMessage ==
    /\ incoming_event # << >>
    /\ Head(incoming_event).type = "Message"
    /\ outgoing_event' = Append(outgoing_event, OutgoingEvent(Head(incoming_event)))
    /\ incoming_event' = Tail(incoming_event)
    /\ UNCHANGED << task, username, usernames, user_list_reply, outgoing_event_rx, written,
                    lines_read >>
    /\ UNCHANGED << camera_vars, input, output, proxy_vars, store_vars >>

\* the task from the reply of the manager to its loop: the list is written and
\* flushed, and outgoing_event_rx.resubscribe() puts the receiver behind every
\* event sent so far
ClientListed(c) ==
    /\ task[c] = "joining"
    /\ user_list_reply[c].sent
    /\ written' = [written EXCEPT ![c] = Append(@, ListLine(user_list_reply[c].val))]
    /\ outgoing_event_rx' = [outgoing_event_rx EXCEPT ![c] = Len(outgoing_event)]
    /\ task' = [task EXCEPT ![c] = "chat"]
    /\ UNCHANGED << username, usernames, incoming_event, user_list_reply, outgoing_event,
                    lines_read >>
    /\ UNCHANGED << camera_vars, input, output, proxy_vars, store_vars >>

\* select! branch lines.next_line() with Some(incoming)
ClientLine(c) ==
    /\ task[c] = "chat"
    /\ lines_read[c] < MaxLines
    /\ Len(incoming_event) < IncomingCapacity
    /\ incoming_event' = Append(incoming_event, IncomingEvent("Message", username[c], ChatLine(c), 0))
    /\ lines_read' = [lines_read EXCEPT ![c] = @ + 1]
    /\ UNCHANGED << task, username, usernames, user_list_reply, outgoing_event,
                    outgoing_event_rx, written >>
    /\ UNCHANGED << camera_vars, input, output, proxy_vars, store_vars >>

\* select! branch lines.next_line() with None: break, the Part is sent and the
\* task ends
ClientEof(c) ==
    /\ task[c] = "chat"
    /\ Len(incoming_event) < IncomingCapacity
    /\ incoming_event' = Append(incoming_event, IncomingEvent("Part", username[c], << >>, 0))
    /\ task' = [task EXCEPT ![c] = "done"]
    /\ UNCHANGED << username, usernames, user_list_reply, outgoing_event, outgoing_event_rx,
                    written, lines_read >>
    /\ UNCHANGED << camera_vars, input, output, proxy_vars, store_vars >>

\* select! branch outgoing_event_rx.recv(): a receiver that has fallen more than
\* the capacity behind gets Err(Lagged) and is moved to the oldest event kept (the
\* pattern Ok(..) does not match, nothing is written); otherwise it gets the next
\* event, which is skipped when its author equals username and written otherwise
ClientRecv(c) ==
    /\ task[c] = "chat"
    /\ outgoing_event_rx[c] < Len(outgoing_event)
    /\ IF Len(outgoing_event) - outgoing_event_rx[c] > OutgoingCapacity
       THEN /\ outgoing_event_rx' = [outgoing_event_rx EXCEPT ![c] =
                                        Len(outgoing_event) - OutgoingCapacity]
            /\ UNCHANGED written
       ELSE LET event == outgoing_event[outgoing_event_rx[c] + 1]
            IN  /\ outgoing_event_rx' = [outgoing_event_rx EXCEPT ![c] = @ + 1]
                /\ IF event.username = username[c] THEN UNCHANGED written
                   ELSE written' = [written EXCEPT ![c] = Append(@, OutgoingLine(event))]
    /\ UNCHANGED << task, username, usernames, incoming_event, user_list_reply,
                    outgoing_event, lines_read >>
    /\ UNCHANGED << camera_vars, input, output, proxy_vars, store_vars >>

NextChat ==
    \/ ManagerJoin
    \/ ManagerPart
    \/ ManagerMessage
    \/ \E c \in ChatConns :
          \/ ChatAccept(c)
          \/ \E line \in NameLines : ReadName(c, line)
          \/ ClientListed(c)
          \/ ClientLine(c)
          \/ ClientEof(c)
          \/ ClientRecv(c)

SpecChat == InitChat /\ [][NextChat]_vars

(* ------------------ proxy session (src/bin/problem5.rs) ---------------- *)
Directions == { "o2t", "t2o" }
Other(d) == IF d = "o2t" THEN "t2o" ELSE "o2t"

\* what read_line appends to line: "ab\n", "a  b\r\n", an address and "\n", "\n",
\* and at the end of the stream "a" (one byte), U+00E9 (one char of two bytes)
\* or nothing
ProxyLines ==
    { << 97, 98, 10 >>, << 97, 32, 32, 98, 13, 10 >>, WordOf(55, 26, 97) \o << 10 >>, << 10 >>,
      << 97 >>, << 233 >>, << >> }

\* the process after the accept of one connection, before forward is called
InitProxy ==
    /\ InitOver({}) /\ overflow_checks = FALSE /\ NoCall /\ NoChat /\ NoStore
    /\ session = "idle"
    /\ half = [d \in Directions |-> "none"]
    /\ read_lines = [d \in Directions |-> << >>]
    /\ relayed = [d \in Directions |-> << >>]

\* forward up to its select!: `TcpStream::connect(target_addr).await?` returns
\* the error or the two futures are built, each before its first read_line
ForwardConnect(connected) ==
    /\ session = "idle"
    /\ IF connected
       THEN /\ session' = "forwarding"
            /\ half' = [d \in Directions |-> "read_line"]
       ELSE /\ session' = "ended"
            /\ UNCHANGED half
    /\ UNCHANGED << read_lines, relayed >>
    /\ UNCHANGED << camera_vars, input, output, chat_vars, store_vars >>

\* ForwardRead with `bytes_read == 0` as the test for the end of the stream
ForwardReadUntilEof(d, l) ==
    /\ session = "forwarding"
    /\ half[d] = "read_line"
    /\ Len(read_lines[d]) < MaxRelay
    /\ read_lines' = [read_lines EXCEPT ![d] = Append(@, l)]
    /\ IF str_len(l) = 0
       THEN /\ half' = [half EXCEPT ![d] = "stopped", ![Other(d)] = "dropped"]
            /\ session' = "ended"
       ELSE /\ half' = [half EXCEPT ![d] = "write_all"]
            /\ UNCHANGED session
    /\ UNCHANGED relayed
    /\ UNCHANGED << camera_vars, input, output, chat_vars, store_vars >>

\* one direction, `read_line(&mut line).await?` yields l: with bytes_read <= 1 the
\* loop breaks, the future is done, select! drops the other future and forward
\* returns; otherwise the line is about to be rewritten and written
ForwardRead(d, l) ==
    /\ session = "forwarding"
    /\ half[d] = "read_line"
    /\ Len(read_lines[d]) < MaxRelay
    /\ read_lines' = [read_lines EXCEPT ![d] = Append(@, l)]
    /\ IF str_len(l) <= 1
       THEN /\ half' = [half EXCEPT ![d] = "stopped", ![Other(d)] = "dropped"]
            /\ session' = "ended"
       ELSE /\ half' = [half EXCEPT ![d] = "write_all"]
            /\ UNCHANGED session
    /\ UNCHANGED relayed
    /\ UNCHANGED << camera_vars, input, output, chat_vars, store_vars >>

\* one direction, do_the_boguscoin_rewrite, write_all(format!("{}\n", line)) and
\* flush: the rewritten line is on the other side
ForwardWrite(d) ==
    /\ session = "forwarding"
    /\ half[d] = "write_all"
    /\ relayed' = [relayed EXCEPT ![d] = Append(@,
           do_the_boguscoin_rewrite(read_lines[d][Len(read_lines[d])]) \o << 10 >>)]
    /\ half' = [half EXCEPT ![d] = "read_line"]
    /\ UNCHANGED << session, read_lines >>
    /\ UNCHANGED << camera_vars, input, output, chat_vars, store_vars >>

\* one direction, read_line, write_all or flush returns an error: `?` ends the
\* future with it, select! drops the other future and forward returns
ForwardFails(d) ==
    /\ session = "forwarding"
    /\ half[d] \in { "read_line", "write_all" }
    /\ half' = [half EXCEPT ![d] = "failed", ![Other(d)] = "dropped"]
    /\ session' = "ended"
    /\ UNCHANGED << read_lines, relayed >>
    /\ UNCHANGED << camera_vars, input, output, chat_vars, store_vars >>

NextProxy ==
    \/ \E connected \in BOOLEAN : ForwardConnect(connected)
    \/ \E d \in Directions :
          \/ \E l \in ProxyLines : ForwardRead(d, l)
          \/ ForwardWrite(d)
          \/ ForwardFails(d)

SpecProxy == InitProxy /\ [][NextProxy]_vars

(* -------------------- price store (src/bin/problem2.rs) ---------------- *)
\* nom be_i32 : big-endian, two's complement
be_i32(s) ==
    IF s[1] < 128 THEN be_u32(s)
    ELSE (((s[1] - 256) * 256 + s[2]) * 256 + s[3]) * 256 + s[4]
\* AsyncWriteExt::write_i32 : big-endian, two's complement
i32_be(n) == << (n \div 16777216) % 256, (n \div 65536) % 256, (n \div 256) % 256, n % 256 >>

\* read_exact into the 9 bytes of buffer and Message::from_bytes on a stream that
\* holds s and then ends: "eof" when the stream ends first (s is shorter),
\* "error" when the first byte is neither 'I' nor 'Q'
parse_message(s) ==
    IF Len(s) < 9 THEN [type |-> "eof", param1 |-> 0, param2 |-> 0]
    ELSE IF s[1] \notin { 73, 81 } THEN [type |-> "error", param1 |-> 0, param2 |-> 0]
    ELSE [type |-> IF s[1] = 73 THEN "Insert" ELSE "Query",
          param1 |-> be_i32(SubSeq(s, 2, 5)), param2 |-> be_i32(SubSeq(s, 6, 9))]

\* i64 division: the quotient is truncated toward zero
i64_div(a, b) == IF a >= 0 THEN a \div b ELSE -((-a) \div b)

StoreConns == 1..NumStoreConns
\* Insert { -1, -7 }, Insert { 2, 2 }, Insert { 2, 100 }, Query { -1, 2 },
\* Query { 2, -1 }, Query { 3, 9 }, a frame of type 'X', and a stream that ends
\* in the middle of a frame
StoreDecoded ==
    { parse_message(f) : f \in
        { << 73, 255, 255, 255, 255, 255, 255, 255, 249 >>, << 73, 0, 0, 0, 2, 0, 0, 0, 2 >>,
          << 73, 0, 0, 0, 2, 0, 0, 0, 100 >>, << 81, 255, 255, 255, 255, 0, 0, 0, 2 >>,
          << 81, 0, 0, 0, 2, 255, 255, 255, 255 >>, << 81, 0, 0, 0, 3, 0, 0, 0, 9 >>,
          << 88, 0, 0, 0, 2, 0, 0, 0, 2 >>, << 73, 0, 0 >> } }

\* the process after serve has bound its listener
InitStore ==
    /\ InitOver({}) /\ overflow_checks = FALSE /\ NoCall /\ NoChat /\ NoProxy
    /\ serving = [c \in StoreConns |-> "idle"]
    /\ entries = [c \in StoreConns |-> << >>]
    /\ received = [c \in StoreConns |-> << >>]
    /\ replied = [c \in StoreConns |-> << >>]

\* serve: listener.accept() and tokio::spawn(handler(connection)); the handler up
\* to its loop, with an empty HashMap
StoreAccept(c) ==
    /\ serving[c] = "idle"
    /\ \A d \in StoreConns : d < c => serving[d] # "idle"
    /\ serving' = [serving EXCEPT ![c] = "loop"]
    /\ UNCHANGED << entries, received, replied >>
    /\ UNCHANGED << camera_vars, input, output, chat_vars, proxy_vars >>

\* In the actions of the handler's loop, m is what read_exact and
\* Message::from_bytes make of the bytes the client sends next.

\* the stream ends (`break`) or from_bytes returns an error (`?`)
StoreEnds(c, m) ==
    /\ serving[c] = "loop"
    /\ m.type \in { "eof", "error" }
    /\ serving' = [serving EXCEPT ![c] = "done"]
    /\ UNCHANGED << entries, received, replied >>
    /\ UNCHANGED << camera_vars, input, output, chat_vars, proxy_vars >>

\* StoreInsert with one HashMap for all connections
StoreInsertShared(c, m) ==
    /\ serving[c] = "loop"
    /\ m.type = "Insert"
    /\ Len(received[c]) < MaxRequests
    /\ received' = [received EXCEPT ![c] = Append(@, m)]
    /\ entries' = [d \in DOMAIN entries |->
                     [t \in DOMAIN entries[d] \cup { m.param1 } |->
                        IF t = m.param1 THEN m.param2 ELSE entries[d][t]]]
    /\ UNCHANGED << serving, replied >>
    /\ UNCHANGED << camera_vars, input, output, chat_vars, proxy_vars >>

\* match arm Message::Insert : entries.insert(timestamp, price)
StoreInsert(c, m) ==
    /\ serving[c] = "loop"
    /\ m.type = "Insert"
    /\ Len(received[c]) < MaxRequests
    /\ received' = [received EXCEPT ![c] = Append(@, m)]
    /\ entries' = [entries EXCEPT ![c] =
                     [t \in DOMAIN entries[c] \cup { m.param1 } |->
                        IF t = m.param1 THEN m.param2 ELSE entries[c][t]]]
    /\ UNCHANGED << serving, replied >>
    /\ UNCHANGED << camera_vars, input, output, chat_vars, proxy_vars >>

\* match arm Message::Query : write_i32 of 0 or of the mean, and flush
StoreQuery(c, m) ==
    /\ serving[c] = "loop"
    /\ m.type = "Query"
    /\ Len(received[c]) < MaxRequests
    /\ received' = [received EXCEPT ![c] = Append(@, m)]
    /\ LET mintime == m.param1
           maxtime == m.param2
           iter == { k \in DOMAIN entries[c] : mintime <= k /\ k <= maxtime }
           entry_count == Cardinality(iter)
           total[S \in SUBSET iter] ==
               IF S = {} THEN 0
               ELSE LET k == CHOOSE k \in S : TRUE IN entries[c][k] + total[S \ { k }]
           mean == IF mintime > maxtime \/ entry_count = 0 THEN 0
                   ELSE i64_div(total[iter], entry_count)
       IN  replied' = [replied EXCEPT ![c] = Append(@, i32_be(mean))]
    /\ UNCHANGED << serving, entries >>
    /\ UNCHANGED << camera_vars, input, output, chat_vars, proxy_vars >>

NextStore ==
    \E c \in StoreConns :
        \/ StoreAccept(c)
        \/ \E m \in StoreDecoded :
             \/ StoreEnds(c, m)
             \/ StoreInsert(c, m)
             \/ StoreQuery(c, m)

SpecStore == InitStore /\ [][NextStore]_vars

(* ---------------------- what a connection has sent ---------------------- *)
\* the frames a client reads from a byte stream of the server (the inverse of
\* to_bytes); bytes after the last whole frame are left out
RECURSIVE frames_of(_)
frames_of(bs) ==
    IF Len(bs) < 1 THEN << >>
    ELSE CASE bs[1] = 65 -> << HeartbeatMsg >> \o frames_of(Tail(bs))
           [] bs[1] = 16 ->
                IF Len(bs) < 2 \/ Len(bs) < 2 + bs[2] THEN << >>
                ELSE << ErrorMsg(SubSeq(bs, 3, 2 + bs[2])) >> \o frames_of(Drop(bs, 2 + bs[2]))
           [] bs[1] = 33 ->
                IF Len(bs) < 2 \/ Len(bs) < 18 + bs[2] THEN << >>
                ELSE LET f == Drop(bs, 2 + bs[2])
                     IN  << [type |-> "Ticket", plate |-> SubSeq(bs, 3, 2 + bs[2]),
                             road |-> be_u16(f), mile1 |-> be_u16(Drop(f, 2)),
                             timestamp1 |-> be_u32(Drop(f, 4)), mile2 |-> be_u16(Drop(f, 8)),
                             timestamp2 |-> be_u32(Drop(f, 10)), speed |-> be_u16(Drop(f, 14))] >>
                         \o frames_of(Drop(bs, 18 + bs[2]))
           [] OTHER -> << >>

\* the frames the client of connection c has received
Received(c) == frames_of(wire[c])
\* every message put on the channel of connection c so far, in the order of the sends
Outbound(c) == frames_of(wire[c] \o wbuf[c]) \o chan[c]
\* the server has closed connection c: the write half is shut down
Closed(c) == writer[c] = "dropped"

Sent(c, m) == \E i \in 1..Len(Outbound(c)) : Outbound(c)[i] = m
ErrorsIn(frames) == Cardinality({ i \in 1..Len(frames) : frames[i].type = "Error" })
\* no Heartbeat and no Ticket follows an Error frame whose message is one of texts
QuietAfter(frames, texts) ==
    \A i, j \in 1..Len(frames) :
        (i < j /\ frames[i].type = "Error" /\ frames[i].msg \in texts)
            => frames[j].type \notin {"Heartbeat", "Ticket"}

AllErrorTexts == { NotACamera, MultipleHeartbeats, AlreadyCamera, CameraNotDispatcher,
                   DispatcherNotCamera, AlreadyDispatcher }

(* ------------------------------- claims -------------------------------- *)
\* C1: a Plate received outside the Camera state makes the server deliver exactly
\* one Error frame to the client and then close the connection: once the server has
\* closed a connection on which "You are not a camera" was sent, the client has
\* received exactly one Error frame.
C1_PlateOutsideCameraDeliversError ==
    \A c \in DOMAIN pc :
        (Sent(c, ErrorMsg(NotACamera)) /\ Closed(c)) => ErrorsIn(Received(c)) = 1

\* C2: a second IAmCamera or IAmDispatcher on an identified connection (all four
\* combinations) yields exactly one Error frame delivered to the client, followed by
\* disconnect: once the server has closed such a connection, the client has received
\* exactly one Error frame.
C2_SecondIdentificationDeliversError ==
    \A c \in DOMAIN pc :
        ((\E t \in { AlreadyCamera, CameraNotDispatcher, DispatcherNotCamera,
                     AlreadyDispatcher } : Sent(c, ErrorMsg(t))) /\ Closed(c))
            => ErrorsIn(Received(c)) = 1

\* C3: after the Error frame of a protocol violation no Heartbeat and no Ticket
\* frame is emitted on the connection, also when a heartbeat task runs on it
\* (stated for the connections that asked for no heartbeat or for one every 100 ms).
C3_NothingAfterError ==
    \A c \in DOMAIN pc :
        (heartbeat_running[c] => hb[c].interval = 1) => QuietAfter(Outbound(c), AllErrorTexts)

\* C4: a message with an unknown type byte makes the server send an Error frame on
\* the connection (and close it): when handle_client has ended on such a byte, an
\* Error frame has been sent.
C4_UnknownTypeByteSendsError ==
    \A c \in DOMAIN pc :
        (pc[c] = "done" /\ result[c].kind = "Err"
            /\ result[c].err = "Unexpected client message type byte")
            => ErrorsIn(Outbound(c)) >= 1

C6_IntervalZeroSendsNothing ==
    \A c \in DOMAIN pc :
        (heartbeat_running[c] /\ hb[c].interval = 0)
            => (hb[c].pc = "none" /\ ~Sent(c, HeartbeatMsg))

\* C7: after a WantHeartbeat with interval n > 0 consecutive Heartbeat frames are
\* n deciseconds (n x 100 ms) apart: the task sleeps n x 100 ms after each send.
C7_HeartbeatEveryNDeciseconds ==
    \A c \in DOMAIN pc :
        (hb[c].pc = "running" /\ hb[c].interval > 0 /\ hb[c].beats >= 1)
            => hb[c].duration = Times100(hb[c].interval)

\* C8: at most one heartbeat task is started per connection, the first WantHeartbeat
\* leaves the role as it is, and a second WantHeartbeat is answered with an Error
\* frame and disconnect: after that Error no Heartbeat is sent on the connection
\* (stated for a first WantHeartbeat of interval 1).
C8_SecondWantHeartbeatDisconnects ==
    \A c \in DOMAIN pc :
        /\ hb[c].pc # "none" => heartbeat_running[c]
        /\ Sent(c, ErrorMsg(MultipleHeartbeats)) => heartbeat_running[c]
        /\ hb[c].interval = 1 => QuietAfter(Outbound(c), { MultipleHeartbeats })

(* the Ticket Engine of the claims: two sightings of one plate on one road *)
SamePlateAndRoad(a, b) == a.plate.plate = b.plate.plate /\ a.state.road = b.state.road
Distance(a, b) == IF a.state.mile > b.state.mile THEN a.state.mile - b.state.mile
                  ELSE b.state.mile - a.state.mile
Elapsed(a, b) == IF a.plate.timestamp > b.plate.timestamp
                 THEN a.plate.timestamp - b.plate.timestamp
                 ELSE b.plate.timestamp - a.plate.timestamp
\* miles per hour above the limit of the later report's camera
Speeding(a, b) ==
    /\ SamePlateAndRoad(a, b)
    /\ Elapsed(a, b) > 0
    /\ Distance(a, b) * 3600 > b.state.limit * Elapsed(a, b)
\* the ticket for a pair, the earlier sighting first, speed in 1/100 mph
TicketOf(a, b) ==
    LET first == IF a.plate.timestamp <= b.plate.timestamp THEN a ELSE b
        second == IF a.plate.timestamp <= b.plate.timestamp THEN b ELSE a
    IN  [type |-> "Ticket", plate |-> a.plate.plate, road |-> a.state.road,
         mile1 |-> first.state.mile, timestamp1 |-> first.plate.timestamp,
         mile2 |-> second.state.mile, timestamp2 |-> second.plate.timestamp,
         speed |-> (Distance(a, b) * 360000) \div Elapsed(a, b)]

\* C9: when the cameras of a road have reported a plate twice at a speed above the
\* limit (mile 0 at t = 0, mile 100 at t = 3600, limit 60), the Ticket for the pair
\* (speed 10000, the earlier sighting as mile1/timestamp1) has been produced.
C9_SpeedingPairProducesTicket ==
    \A i, j \in 1..Len(log) :
        (i < j /\ Speeding(log[i], log[j]))
            => \E c \in DOMAIN pc : Sent(c, TicketOf(log[i], log[j]))

\* C10: a ticket decided while no dispatcher is bound to its road is kept, and the
\* dispatcher that later sends IAmDispatcher naming the road receives it: the step
\* that makes a connection the dispatcher of the road puts the ticket on its queue.
C10_QueuedTicketReachesLaterDispatcher ==
    [][\A c \in DOMAIN pc : \A i, j \in 1..Len(log) :
          (/\ i < j /\ Speeding(log[i], log[j])
           /\ \A d \in DOMAIN pc : client_state[d].kind # "Dispatcher"
           /\ client_state[c].kind = "Connecting"
           /\ client_state'[c].kind = "Dispatcher"
           /\ \E k \in 1..Len(client_state'[c].state.roads) :
                 client_state'[c].state.roads[k] = log[i].state.road)
            => \E k \in 1..Len(chan'[c]) : chan'[c][k] = TicketOf(log[i], log[j])]_vars

(* the wire format of the client frames, as the protocol documents it *)
\* the number of bytes the frame that starts s announces, as far as s tells:
\* Plate is type, length, plate, u32; WantHeartbeat is type, u32; IAmCamera is
\* type and three u16; IAmDispatcher is type, numroads and numroads u16
AnnouncedLen(s) ==
    CASE s[1] = 32 -> IF Len(s) < 2 THEN 6 ELSE 6 + s[2]
      [] s[1] = 64 -> 5
      [] s[1] = 128 -> 7
      [] s[1] = 129 -> IF Len(s) < 2 THEN 2 ELSE 2 + 2 * s[2]
      [] OTHER -> 1
\* the stream ends in the middle of a frame
EndsMidFrame(s) == Len(s) >= 1 /\ s[1] \in KnownTypeBytes /\ Len(s) < AnnouncedLen(s)
UnknownType(s) == Len(s) >= 1 /\ s[1] \notin KnownTypeBytes

\* C13: from_bytes returns an error, never a message, when the type byte is not
\* one it knows and when the stream ends before every byte the frame announces
\* has arrived (plate bytes per the length byte, timestamp, roads per numroads,
\* fixed fields): the end of the stream in the middle of a frame is an error.
C13_FromBytesFailsOnMalformed ==
    (input.fn = "from_bytes" /\ output # Idle) =>
        /\ UnknownType(input.reader) =>
              (~output.val.ok /\ output.val.err = "Unexpected client message type byte"
               /\ output.val.byte = input.reader[1])
        /\ EndsMidFrame(input.reader) => (~output.val.ok /\ output.val.err = "early eof")

\* C13 witness: from_bytes has been run on an IAmDispatcher frame that announces
\* two roads and holds one and a half, and has returned an error.
C13_Witness ==
    /\ input.fn = "from_bytes" /\ output # Idle
    /\ input.reader = << 129, 2, 1, 0, 1 >>
    /\ ~output.val.ok

\* C14: do_the_boguscoin_rewrite replaces every whitespace-delimited word of the
\* line that starts with '7', is 26 to 35 characters long and is entirely
\* alphanumeric by Tony's address and leaves every other word unchanged and in
\* its position: the result is the words of the line, addresses replaced, joined
\* by single spaces.
C14_RewriteReplacesAddressesOnly ==
    LET IsAddress(word) ==
            /\ word[1] = 55
            /\ Len(word) >= 26 /\ Len(word) <= 35
            /\ \A k \in 1..Len(word) : is_alphanumeric(word[k])
    IN  (input.fn = "do_the_boguscoin_rewrite" /\ output # Idle) =>
            output.val = join([i \in 1..Len(input.words) |->
                                 IF IsAddress(input.words[i]) THEN TONY ELSE input.words[i]],
                              << 32 >>)

\* C15: every outbound frame passes through the one queue of its connection and
\* the one writer task, so frames reach the socket whole, one after another, in
\* the order they were enqueued, however the read loop and the heartbeat task
\* interleave: a step leaves the queue and the byte stream (socket, then buffer)
\* alone, or puts one message at the tail of the queue, or takes the message at
\* the head of the queue and adds exactly its frame at the end of the stream; what
\* is on the socket is never changed, only extended.
C15_FramesWholeInQueueOrder ==
    [][\A c \in DOMAIN pc :
          LET before == wire[c] \o wbuf[c]
              after == wire'[c] \o wbuf'[c]
              added == Drop(after, Len(before))
          IN  /\ Len(wire'[c]) >= Len(wire[c]) /\ Take(wire'[c], Len(wire[c])) = wire[c]
              /\ Len(after) >= Len(before) /\ Take(after, Len(before)) = before
              /\ \/ chan'[c] = chan[c] /\ after = before
                 \/ /\ Len(chan'[c]) = Len(chan[c]) + 1
                    /\ Take(chan'[c], Len(chan[c])) = chan[c]
                    /\ after = before
                 \/ /\ chan[c] # << >>
                    /\ chan'[c] = Tail(chan[c])
                    /\ IF sock[c] = "open"
                       THEN frames_of(added \o << 65 >>) = << Head(chan[c]), HeartbeatMsg >>
                       ELSE wire'[c] = wire[c]]_vars

\* C15 witness: the buffer has been flushed to the socket, and after the bytes that
\* were buffered at first the stream holds a Heartbeat frame and then an Error
\* frame, while a later Heartbeat waits in the queue behind them.
C15_Witness ==
    \E c \in DOMAIN pc :
        /\ wire[c] # << >>
        /\ Len(wire[c] \o wbuf[c]) > BufCapacity
        /\ LET fs == frames_of(Drop(wire[c] \o wbuf[c], BufCapacity))
           IN  \E i, j \in 1..Len(fs) :
                   i < j /\ fs[i].type = "Heartbeat" /\ fs[j].type = "Error"
        /\ chan[c] # << >>

\* C16: when the connection closes (the peer disconnects, a frame cannot be
\* decoded or a protocol violation ends the read loop) its heartbeat task is
\* cancelled with it: once handle_client has left its loop no further Heartbeat
\* is put on the connection's queue (stated for a heartbeat of every 100 ms).
C16_NoHeartbeatAfterClose ==
    [][\A c \in DOMAIN pc :
          (pc[c] = "done" /\ (heartbeat_running[c] => hb[c].interval = 1))
            => ~(/\ Len(chan'[c]) = Len(chan[c]) + 1
                 /\ chan'[c][Len(chan'[c])] = HeartbeatMsg)]_vars

\* C17: a Plate received in the Camera state is accepted without an Error and
\* handed on as a sighting that carries the camera's road, mile and limit with
\* the plate and the timestamp, and it is part of the road's history for later
\* reports: the step that takes a report leaves the connection's queue and loop
\* alone, records the sighting with the camera's identity, and evaluates it against
\* every earlier sighting, so that a pair above the limit puts its Ticket on the
\* queue of a dispatcher of the road that is connected.
C17_PlateJoinsRoadHistory ==
    [][Len(log') = Len(log) + 1 =>
          LET seen == log'[Len(log')]
          IN  /\ seen.plate.type = "Plate"
              /\ \E c \in DOMAIN pc :
                    /\ client_state[c] = [kind |-> "Camera", state |-> seen.state]
                    /\ pc[c] = "loop" /\ pc'[c] = "loop"
                    /\ chan'[c] = chan[c]
              /\ \A i \in 1..Len(log) : \A d \in DOMAIN pc :
                    (/\ Speeding(log[i], seen)
                     /\ client_state[d].kind = "Dispatcher" /\ pc[d] = "loop"
                     /\ \E k \in 1..Len(client_state[d].state.roads) :
                           client_state[d].state.roads[k] = seen.state.road)
                       => \E k \in 1..Len(chan'[d]) : chan'[d][k] = TicketOf(log[i], seen)]_vars

\* C18: when several dispatcher connections are bound to one road, each ticket
\* for the road is delivered to exactly one of them, to none of them twice: while
\* two dispatchers of the road of a pair above the limit are connected, the Ticket
\* of the pair has been sent on exactly one connection, once.
C18_TicketToExactlyOneDispatcher ==
    \A i, j \in 1..Len(log) :
        LET t == TicketOf(log[i], log[j])
            dispatchers == { c \in DOMAIN pc :
                               /\ client_state[c].kind = "Dispatcher"
                               /\ \E k \in 1..Len(client_state[c].state.roads) :
                                     client_state[c].state.roads[k] = log[i].state.road }
            copies(c) == Cardinality({ k \in 1..Len(Outbound(c)) : Outbound(c)[k] = t })
        IN  (i < j /\ Speeding(log[i], log[j]) /\ Cardinality(dispatchers) >= 2)
              => \E c \in dispatchers :
                    copies(c) = 1 /\ \A d \in DOMAIN pc \ { c } : copies(d) = 0

\* C19: a protocol violation, a malformed frame or a transport error on one
\* connection ends only that connection: the step in which handle_client of a
\* connection leaves its loop changes nothing of any other connection (role,
\* heartbeat flag and task, queue, writer task, buffer, socket, position) and
\* leaves main in its accept loop; and while main is in its accept loop the next
\* connection can be accepted, whatever happened on the earlier ones.
C19_ErrorEndsOnlyItsConnection ==
    /\ [][\A c \in DOMAIN pc :
             (pc[c] = "loop" /\ pc'[c] = "done") =>
                /\ main' = main
                /\ \A d \in DOMAIN pc \ { c } :
                      /\ client_state'[d] = client_state[d]
                      /\ heartbeat_running'[d] = heartbeat_running[d]
                      /\ hb'[d] = hb[d]
                      /\ chan'[d] = chan[d]
                      /\ writer'[d] = writer[d]
                      /\ wbuf'[d] = wbuf[d] /\ wire'[d] = wire[d] /\ sock'[d] = sock[d]
                      /\ pc'[d] = pc[d] /\ result'[d] = result[d]]_vars
    /\ [](\A d \in DOMAIN pc :
             (main = "accepting" /\ pc[d] = "idle" /\ \A e \in DOMAIN pc : e < d => pc[e] # "idle")
                => ENABLED Accept(d))

\* C19 witness: the first connection has ended on a frame that could not be
\* decoded; the second one, accepted by the same main, is a camera in its loop
\* whose heartbeat task has already sent a Heartbeat.
C19_Witness ==
    /\ DOMAIN pc = PairConns
    /\ pc[1] = "done" /\ result[1].kind = "Err"
    /\ main = "accepting"
    /\ pc[2] = "loop" /\ client_state[2].kind = "Camera"
    /\ hb[2].pc = "running" /\ hb[2].beats >= 1

(* the frame of a server message as its reader sees it: strings as bytes *)
OnTheWire(m) ==
    CASE m.type = "Error" -> [m EXCEPT !.msg = as_bytes(@)]
      [] m.type = "Ticket" -> [m EXCEPT !.plate = as_bytes(@)]
      [] OTHER -> m
\* the plate of a Ticket or the message of an Error is longer than 255 bytes
TooLong(m) ==
    \/ m.type = "Error" /\ Len(as_bytes(m.msg)) > MaxStrLen
    \/ m.type = "Ticket" /\ Len(as_bytes(m.plate)) > MaxStrLen
\* the bytes a call of to_bytes added to the stream (socket, then buffer)
AddedBytes == Drop(output.wire \o output.buf, Len(input.writer.wire \o input.writer.buf))
\* the call added exactly the frame of its message, after what was there before
WroteWholeFrame ==
    /\ Take(output.wire \o output.buf, Len(input.writer.wire \o input.writer.buf))
          = input.writer.wire \o input.writer.buf
    /\ frames_of(AddedBytes \o << 65 >>) = << OnTheWire(input.msg), HeartbeatMsg >>
WroteNothing ==
    output.wire \o output.buf = input.writer.wire \o input.writer.buf

\* C20: to_bytes fails only when the plate of a Ticket or the message of an Error
\* is longer than 255 bytes, and then it writes no byte of the frame; for every
\* other message it succeeds and writes the complete frame (tag, length byte,
\* payload, big-endian fields in the documented order).
C20_FailsOnlyWhenTooLong ==
    (input.fn = "to_bytes" /\ output # Idle) =>
        /\ ~output.ok <=> TooLong(input.msg)
        /\ TooLong(input.msg) => WroteNothing
        /\ ~TooLong(input.msg) => WroteWholeFrame

\* C20 amended: to_bytes fails when the plate of a Ticket or the message of an
\* Error is longer than 255 bytes, and then it writes no byte of the frame, and
\* otherwise only when the socket is reset (the BufWriter cannot make room), and
\* then what it wrote of the frame is in the buffer behind the bytes that were
\* there; whenever it succeeds it has written the complete frame.
C20_FailsWhenTooLongOrSocketFails ==
    (input.fn = "to_bytes" /\ output # Idle) =>
        /\ TooLong(input.msg) => (~output.ok /\ WroteNothing)
        /\ (~output.ok /\ ~TooLong(input.msg)) =>
              /\ input.writer.sock = "broken"
              /\ output.wire = input.writer.wire
              /\ Len(output.buf) >= Len(input.writer.buf)
              /\ Take(output.buf, Len(input.writer.buf)) = input.writer.buf
        /\ (~TooLong(input.msg) /\ input.writer.sock = "open") => output.ok
        /\ output.ok => WroteWholeFrame

\* C20 witness: to_bytes was called for an Error of 20 bytes with one free byte in
\* the buffer and a reset socket: it has failed after the tag byte was buffered.
C20_Witness ==
    /\ input.fn = "to_bytes" /\ output # Idle
    /\ input.msg = ErrorMsg(NotACamera)
    /\ input.writer.sock = "broken"
    /\ ~output.ok
    /\ output.buf = input.writer.buf \o << 16 >>

\* C21: every frame the writer task takes from the queue of a connection is
\* transmitted to the peer while the connection is open, and an Error frame
\* reaches the client before the server closes the connection: once the server
\* has closed a connection, no byte that to_bytes wrote is left in the write
\* buffer (every frame taken from the queue is on the socket).
C21_TakenFramesAreTransmitted ==
    \A c \in DOMAIN pc : Closed(c) => wbuf[c] = << >>

\* C22: for every u32 interval of a WantHeartbeat the sleep between heartbeats is
\* interval x 100 milliseconds: the 32-bit product interval * 100 never aborts
\* the task of the connection and never wraps, so the duration of every
\* heartbeat task that was started is the exact product.
C22_ProductNeverWrapsOrAborts ==
    \A c \in DOMAIN pc :
        /\ result[c].kind # "Panic"
        /\ hb[c].pc # "none" => hb[c].duration = Times100(hb[c].interval)

(* the chat relay as its clients see it *)
\* the manager has taken the Join of connection c and c has not disconnected
Present(c) == (task[c] = "joining" /\ user_list_reply[c].sent) \/ task[c] = "chat"

\* C23: after any interleaving of Join and Part events the manager's usernames
\* set equals the set of names of the clients that have joined and not yet
\* disconnected, also when two connected clients joined under the same name and
\* one of them leaves: whenever the manager has handled every event sent to it,
\* usernames is the set of the names of the connections that are present.
C23_UsernamesAreThePresentNames ==
    incoming_event = << >> =>
        usernames = { username[c] : c \in { d \in DOMAIN task : Present(d) } }

\* C24: every chat line sent by a joined client after another client has
\* completed its join is delivered to that other client exactly once, in the
\* order the manager broadcast it, and a client never receives its own Join, Part
\* or Message events: the broadcast only grows at its end; the receiver of a
\* client in its loop passes the events one at a time, none skipped; the step
\* that passes a chat line of another connection writes exactly that line to the
\* client, and the step that passes a chat line the client sent itself, or a
\* Join or Part under its own name, writes nothing.
C24_LinesOfOthersDeliveredOnce ==
    [][\A c \in DOMAIN task : (task[c] = "chat") =>
          /\ Len(outgoing_event') >= Len(outgoing_event)
          /\ Take(outgoing_event', Len(outgoing_event)) = outgoing_event
          /\ outgoing_event_rx'[c] \in { outgoing_event_rx[c], outgoing_event_rx[c] + 1 }
          /\ outgoing_event_rx'[c] = outgoing_event_rx[c] => written'[c] = written[c]
          /\ outgoing_event_rx'[c] = outgoing_event_rx[c] + 1 =>
                LET event == outgoing_event[outgoing_event_rx'[c]]
                IN  /\ (event.type = "Message" /\ event.content # ChatLine(c))
                          => written'[c] = Append(written[c], OutgoingLine(event))
                    /\ (event.type = "Message" /\ event.content = ChatLine(c))
                          => written'[c] = written[c]
                    /\ (event.type # "Message" /\ event.username = username[c])
                          => written'[c] = written[c]]_vars

\* C25: the session relays rewritten lines in each direction in arrival order
\* until one direction stops; a direction stops on end-of-stream or on any read
\* of at most one byte (a line that is only a newline is treated like
\* end-of-stream), and as soon as either direction stops the other direction is
\* dropped too and the whole session ends: what is written in a direction is,
\* line for line, the rewrite of what was read in it, every line read before the
\* last one included and no line of at most one byte; a read of at most one byte
\* stops its direction, drops the other one and ends the session in the same
\* step, a longer read does none of this; and after the end nothing is read or
\* written.
C25_SessionRelaysUntilADirectionStops ==
    /\ [](\A d \in DOMAIN half :
             /\ Len(relayed[d]) <= Len(read_lines[d])
             /\ Len(relayed[d]) >= Len(read_lines[d]) - 1
             /\ \A i \in 1..Len(relayed[d]) :
                   /\ str_len(read_lines[d][i]) > 1
                   /\ relayed[d][i] = do_the_boguscoin_rewrite(read_lines[d][i]) \o << 10 >>
             /\ half[d] = "stopped" => (session = "ended" /\ half[Other(d)] = "dropped"))
    /\ [][\A d \in DOMAIN half :
             /\ Len(read_lines'[d]) = Len(read_lines[d]) + 1 =>
                   IF str_len(read_lines'[d][Len(read_lines'[d])]) <= 1
                   THEN half'[d] = "stopped" /\ half'[Other(d)] = "dropped" /\ session' = "ended"
                   ELSE half'[d] = "write_all" /\ half'[Other(d)] = half[Other(d)]
                        /\ session' = "forwarding"
             /\ (half'[d] = "stopped" /\ half[d] # "stopped") =>
                   Len(read_lines'[d]) = Len(read_lines[d]) + 1
             /\ session = "ended" => (relayed' = relayed /\ read_lines' = read_lines)]_vars

\* C25 witness: the session has ended on a line that is only a newline, read from
\* the client after one line had been relayed to the target, while a line read
\* from the target was still to be written: it is dropped with its direction.
C25_Witness ==
    /\ session = "ended"
    /\ half = [d \in Directions |-> IF d = "o2t" THEN "stopped" ELSE "dropped"]
    /\ read_lines["o2t"] = << << 97, 98, 10 >>, << 10 >> >>
    /\ relayed["o2t"] = << << 97, 98, 10 >> >>
    /\ Len(read_lines["t2o"]) = 1 /\ relayed["t2o"] = << >>

(* the price store as its clients see it *)
\* the reply owed to the query q after the messages of history: the mean of the
\* prices last inserted at the timestamps of the range, truncated toward zero
\* (the quotient nearest to zero whose product with the count does not pass the
\* sum), and 0 for an empty range
MeanOwed(history, q) ==
    LET inserts == { k \in 1..Len(history) : history[k].type = "Insert" }
        times == { history[k].param1 : k \in { j \in inserts :
                      q.param1 <= history[j].param1 /\ history[j].param1 <= q.param2 } }
        last(t) == history[CHOOSE k \in inserts :
                              /\ history[k].param1 = t
                              /\ \A j \in inserts : history[j].param1 = t => j <= k].param2
        n == Cardinality(times)
        sum[S \in SUBSET times] ==
            IF S = {} THEN 0
            ELSE LET t == CHOOSE t \in S : TRUE IN last(t) + sum[S \ { t }]
        prices == { last(t) : t \in times }
        between == (CHOOSE lo \in prices : \A p \in prices : lo <= p)
                   ..(CHOOSE hi \in prices : \A p \in prices : p <= hi)
    IN  IF q.param1 > q.param2 \/ n = 0 THEN 0
        ELSE IF sum[times] >= 0
        THEN CHOOSE m \in between : m * n <= sum[times] /\ (m + 1) * n > sum[times]
        ELSE CHOOSE m \in between : m * n >= sum[times] /\ (m - 1) * n < sum[times]

\* C26: a Query(mintime, maxtime) replies with the mean, truncated toward zero,
\* of the prices last inserted at each timestamp of the range on that same
\* connection, and with 0 when mintime > maxtime or no timestamp is in range; an
\* Insert on one connection never changes the reply to a Query on another: a
\* step on a connection leaves the entries and the replies of every other
\* connection alone, and a step that writes a reply writes one, the 32-bit
\* big-endian mean owed to the query after the messages of its own connection.
C26_QueryRepliesOwnMean ==
    [][\A c \in DOMAIN serving :
          /\ received'[c] # received[c] =>
                \A d \in DOMAIN serving \ { c } :
                    entries'[d] = entries[d] /\ replied'[d] = replied[d]
          /\ replied'[c] # replied[c] =>
                /\ Len(received'[c]) = Len(received[c]) + 1
                /\ received'[c][Len(received'[c])].type = "Query"
                /\ Len(replied'[c]) = Len(replied[c]) + 1
                /\ Take(replied'[c], Len(replied[c])) = replied[c]
                /\ Len(replied'[c][Len(replied'[c])]) = 4
                /\ be_i32(replied'[c][Len(replied'[c])])
                      = MeanOwed(received[c], received'[c][Len(received'[c])])
          /\ (Len(received'[c]) = Len(received[c]) + 1
                /\ received'[c][Len(received'[c])].type = "Query")
                => Len(replied'[c]) = Len(replied[c]) + 1]_vars

\* C26 witness: the first connection inserted -7 at -1 and 2 at 2 and was told
\* -2 (the mean -2.5 truncated toward zero) for the range -1..2, while the
\* second connection had inserted 100 at 2.
C26_Witness ==
    /\ DOMAIN serving = StoreConns
    /\ Len(received[1]) = 3
    /\ received[1][3] = [type |-> "Query", param1 |-> -1, param2 |-> 2]
    /\ replied[1] = << << 255, 255, 255, 254 >> >>
    /\ Len(received[2]) >= 1
    /\ received[2][1] = [type |-> "Insert", param1 |-> 2, param2 |-> 100]

====
